---- MODULE Spec2Model ----
(***************************************************************************)
(* Model of week1/pkg/service/shutdown.go: the App orchestrator            *)
(* (StartAndServe, shutdown, close), the Server wrapper (Start, rejectReq, *)
(* stop, serverMux.ServeHTTP), the buffered signal channel, the            *)
(* second-signal listener goroutine and the time.AfterFunc watchdog.       *)
(*                                                                         *)
(* Time is counted in seconds.  Steps of the orchestrating goroutine that  *)
(* only execute code take no time; time.Sleep, srv.Shutdown, a callback    *)
(* and a request handler take time.  The linux build is modelled.          *)
(***************************************************************************)
EXTENDS Integers, Sequences, FiniteSets

\* ---- bounds of the model ------------------------------------------------
MaxServers == 2
MaxCbs     == 2
MaxReqs    == 1
MaxSignals == 2

\* ---- program constants (seconds) ---------------------------------------
shutdownTimeout == 30
waitTime        == 10
cbTimeout       == 3
closeSleep      == 1
signalChanCap   == 1

\* signals passed to signal.Notify on linux (os.Kill cannot be caught)
Notified == {"SIGINT", "SIGTERM", "SIGUSR1", "SIGUSR2"}
\* the signals the environment sends in the model: an interrupt, a
\* user-defined signal, and SIGURG, which the program does not register for
Signals  == {"SIGINT", "SIGUSR1", "SIGURG"}
\* what the specification calls a trigger: interrupt and termination
IsTrigger(sig) == sig \in {"SIGINT", "SIGTERM"}

VARIABLES
  nSrv,        \* len(app.servers)
  nCb,         \* len(app.cbs)
  pc,          \* position of the goroutine running StartAndServe/shutdown
  idx,         \* loop index of the range loop in progress
  wg,          \* counter of the sync.WaitGroup in shutdown
  wakeAt,      \* end of the time.Sleep in progress (-1: none)
  reject,      \* serverMux.reject of each server
  startSt,     \* goroutine running srv.Start() of each server
  stopSt,      \* goroutine running srv.stop() of each server
  cbSt,        \* goroutine running each callback
  cbDeadline,  \* deadline of the timeout context of each callback
  cbLate,      \* the callback returned after its deadline
  reqs,        \* HTTP requests
  signalChan,  \* buffered channel of os.Signal
  listener,    \* the goroutine waiting for a second signal exists
  wdDeadline,  \* expiry of the time.AfterFunc timer (-1: not armed)
  now,         \* clock
  exitCause,   \* "none" while the process runs
  nSig,        \* signals delivered to the process
  nTrig,       \* trigger signals delivered to the process
  nDropped,    \* registered signals dropped on a full channel
  trigAt,      \* time of delivery of the first registered signal
  hist         \* record of what has been called so far, and when

vars == <<nSrv, nCb, pc, idx, wg, wakeAt, reject, startSt, stopSt, cbSt,
          cbDeadline, cbLate, reqs, signalChan, listener, wdDeadline, now,
          exitCause, nSig, nTrig, nDropped, trigAt, hist>>

Servers == 1..nSrv
Cbs     == 1..nCb
ReqIds  == 1..MaxReqs

exited == exitCause # "none"

\* variant: the forced exits use status 0
ExitStatus_zero(cause) == IF cause = "panic" THEN 2 ELSE 0

\* os.Exit(1) for both forced exits, 2 for an unrecovered panic
ExitStatus(cause) ==
  CASE cause = "normal"   -> 0
    [] cause = "watchdog" -> 1
    [] cause = "second"   -> 1
    [] cause = "panic"    -> 2
    [] OTHER              -> -1

NoReq == [srv |-> 0, st |-> "none", afterReject |-> FALSE]

Init ==
  /\ nSrv \in 0..MaxServers
  /\ nCb \in 0..MaxCbs
  /\ pc = "start"
  /\ idx = 1
  /\ wg = 0
  /\ wakeAt = -1
  /\ reject = [s \in 1..nSrv |-> FALSE]
  /\ startSt = [s \in 1..nSrv |-> "idle"]
  /\ stopSt = [s \in 1..nSrv |-> "idle"]
  /\ cbSt = [c \in 1..nCb |-> "idle"]
  /\ cbDeadline = [c \in 1..nCb |-> -1]
  /\ cbLate = [c \in 1..nCb |-> FALSE]
  /\ reqs = [r \in ReqIds |-> NoReq]
  /\ signalChan = <<>>
  /\ listener = FALSE
  /\ wdDeadline = -1
  /\ now = 0
  /\ exitCause = "none"
  /\ nSig = 0
  /\ nTrig = 0
  /\ nDropped = 0
  /\ trigAt = -1
  /\ hist = [shutdown |-> 0,
             reject |-> [s \in 1..nSrv |-> 0],
             stop |-> [s \in 1..nSrv |-> 0],
             cb |-> [c \in 1..nCb |-> 0],
             rejectDoneAt |-> -1,
             cbStageAt |-> -1,
             cbInvAt |-> [c \in 1..nCb |-> -1]]

cfgV  == <<nSrv, nCb>>
mainV == <<pc, idx, wg, wakeAt>>
srvV  == <<reject, startSt, stopSt>>
cbV   == <<cbSt, cbDeadline, cbLate>>
sigV  == <<signalChan, listener, nSig, nTrig, nDropped, trigAt>>

\* ---- helpers translated from the source ---------------------------------

\* variant: the flag is flipped
rejectReq_toggle(flags, s) == [flags EXCEPT ![s] = ~flags[s]]

\* variant: the flag is left as it was
rejectReq_noop(flags, s) == flags

\* Server.rejectReq: s.mux.reject = true
rejectReq(flags, s) == [flags EXCEPT ![s] = TRUE]

\* variant: the flag is not consulted
ServeHTTPResult_noCheck(flag) == "handling"

\* serverMux.ServeHTTP: 503 when the flag is set, else the wrapped ServeMux
ServeHTTPResult(flag) == IF flag THEN "r503" ELSE "handling"

\* variant: the loop stops one server early
RejectLoopDone_offByOne(i) == i >= nSrv

\* end of "for _, s := range app.servers" in the reject loop
RejectLoopDone(i) == i > nSrv

\* end of "for _, s := range app.servers" in the start loop
StartLoopDone(i) == i > nSrv

\* end of "for _, s := range app.servers" in the stop loop
StopLoopDone(i) == i > nSrv

\* end of "for _, cb := range app.cbs"
CbLoopDone(i) == i > nCb

\* variant: no wait after the stop loop
StopBarrierOpen_noWait == TRUE

\* wg.Wait() after the stop loop returns when the counter is zero
StopBarrierOpen == wg = 0

\* ctx.Done() of the callback's timeout context is closed
CtxExpired(c) == cbDeadline[c] # -1 /\ now >= cbDeadline[c]

\* variant: the wait is given up once every callback deadline has expired
CbBarrierOpen_deadline == wg = 0 \/ \A c \in Cbs : CtxExpired(c)

\* wg.Wait() after the callback loop returns when the counter is zero
CbBarrierOpen == wg = 0

\* variant: the timer only starts to count when the drain sleep is over
WatchdogDeadline_afterDrain(t) == t + waitTime + shutdownTimeout

\* variant: wg.Done() runs twice
wgDone_twice(w) == w - 2

\* wg.Done()
wgDone(w) == w - 1

\* variant: the sleep ends early once no request is in flight
DrainDue_poll == now >= wakeAt \/ \A r \in ReqIds : reqs[r].st \notin {"arrived", "handling"}

\* time.Sleep(app.waitTime) is over
DrainDue == now >= wakeAt

\* variant: the deadline is counted from the first trigger
CbDeadlineAt_fromTrigger(t) == trigAt + cbTimeout

\* context.WithTimeout(bg, app.cbTimeout) called at time t
CbDeadlineAt(t) == t + cbTimeout

\* time.AfterFunc(app.shutdownTimeout, ...) armed at time t expires at
WatchdogDeadline(t) == t + shutdownTimeout

\* serverMux.reject is a plain bool: neither rejectReq nor ServeHTTP uses a
\* lock or an atomic operation
FlagSynchronized == FALSE

\* rejectReq has been called on server s (the loop has passed s)
RejectCalled(s) ==
  \/ pc = "reject" /\ idx > s
  \/ pc \in {"drain", "stopSpawn", "stopWait", "cbSpawn", "cbWait", "close", "done"}

\* a request of server s is on an active connection
InFlight(s) == \E r \in ReqIds : reqs[r].srv = s /\ reqs[r].st \in {"arrived", "handling"}

\* ---- StartAndServe ------------------------------------------------------

\* one iteration of the start loop (go func() { srv.Start() }), or its end;
\* a goroutine launched by an earlier iteration may already run
SpawnServers ==
  /\ ~exited /\ pc = "start"
  /\ IF StartLoopDone(idx)
       THEN /\ pc' = "notify"
            /\ idx' = 1
            /\ UNCHANGED startSt
       ELSE /\ startSt' = [startSt EXCEPT ![idx] = "spawned"]
            /\ idx' = idx + 1
            /\ UNCHANGED pc
  /\ UNCHANGED <<cfgV, hist, wg, wakeAt, reject, stopSt, cbV, reqs, sigV,
                 wdDeadline, now, exitCause>>

\* signalChan := make(chan os.Signal, 1); signal.Notify(signalChan, ...)
Notify ==
  /\ ~exited /\ pc = "notify"
  /\ pc' = "await"
  /\ UNCHANGED <<cfgV, hist, idx, wg, wakeAt, srvV, cbV, reqs, sigV, wdDeadline,
                 now, exitCause>>

\* the goroutine of one server runs srv.Start() = ListenAndServe
SrvStart(s) ==
  /\ ~exited /\ startSt[s] = "spawned"
  /\ startSt' = [startSt EXCEPT ![s] =
                   IF stopSt[s] \in {"called", "ok", "err"} THEN "closed"
                   ELSE "listening"]
  /\ UNCHANGED <<cfgV, hist, mainV, reject, stopSt, cbV, reqs, sigV, wdDeadline,
                 now, exitCause>>

\* ListenAndServe returns an error other than ErrServerClosed
SrvStartFail(s) ==
  /\ ~exited /\ startSt[s] = "spawned"
  /\ startSt' = [startSt EXCEPT ![s] = "failed"]
  /\ UNCHANGED <<cfgV, hist, mainV, reject, stopSt, cbV, reqs, sigV, wdDeadline,
                 now, exitCause>>

\* the os/signal package delivers a signal: a non-blocking send on the
\* registered channel, dropped when the buffer is full
SignalDeliver(sig) ==
  /\ ~exited /\ pc \notin {"start", "notify"}
  /\ nSig < MaxSignals
  /\ nSig' = nSig + 1
  /\ nTrig' = IF IsTrigger(sig) THEN nTrig + 1 ELSE nTrig
  /\ IF sig \in Notified
       THEN /\ trigAt' = IF trigAt = -1 THEN now ELSE trigAt
            /\ IF Len(signalChan) < signalChanCap
                 THEN signalChan' = Append(signalChan, sig) /\ nDropped' = nDropped
                 ELSE signalChan' = signalChan /\ nDropped' = nDropped + 1
       ELSE UNCHANGED <<trigAt, signalChan, nDropped>>
  /\ UNCHANGED <<cfgV, hist, mainV, srvV, cbV, reqs, listener, wdDeadline, now,
                 exitCause>>

\* case <-signalChan: start the second-signal goroutine, arm the
\* time.AfterFunc timer, enter shutdown()
RecvFirst ==
  /\ ~exited /\ pc = "await"
  /\ Len(signalChan) > 0
  /\ signalChan' = Tail(signalChan)
  /\ listener' = TRUE
  /\ wdDeadline' = WatchdogDeadline(now)
  /\ pc' = "reject"
  /\ idx' = 1
  /\ hist' = [hist EXCEPT !.shutdown = @ + 1]
  /\ UNCHANGED <<cfgV, wg, wakeAt, srvV, cbV, reqs, nSig, nTrig, nDropped,
                 trigAt, now, exitCause>>

\* the goroutine started on the first signal receives another signal
SecondRecv ==
  /\ ~exited /\ listener
  /\ Len(signalChan) > 0
  /\ signalChan' = Tail(signalChan)
  /\ exitCause' = "second"
  /\ UNCHANGED <<cfgV, hist, mainV, srvV, cbV, reqs, listener, nSig, nTrig,
                 nDropped, trigAt, wdDeadline, now>>

\* the function given to time.AfterFunc runs
WatchdogFire ==
  /\ ~exited /\ wdDeadline # -1
  /\ now >= wdDeadline
  /\ exitCause' = "watchdog"
  /\ UNCHANGED <<cfgV, hist, mainV, srvV, cbV, reqs, sigV, wdDeadline, now>>

\* ---- shutdown -----------------------------------------------------------

\* one iteration of the reject loop, or its end and the start of time.Sleep
RejectStep ==
  /\ ~exited /\ pc = "reject"
  /\ IF RejectLoopDone(idx)
       THEN /\ pc' = "drain"
            /\ wakeAt' = now + waitTime
            /\ idx' = 1
            /\ hist' = [hist EXCEPT !.rejectDoneAt = now]
            /\ UNCHANGED reject
       ELSE /\ reject' = rejectReq(reject, idx)
            /\ idx' = idx + 1
            /\ hist' = [hist EXCEPT !.reject[idx] = @ + 1]
            /\ UNCHANGED <<pc, wakeAt>>
  /\ UNCHANGED <<cfgV, wg, startSt, stopSt, cbV, reqs, sigV, wdDeadline, now,
                 exitCause>>

\* time.Sleep(app.waitTime) returns
DrainWake ==
  /\ ~exited /\ pc = "drain"
  /\ DrainDue
  /\ pc' = "stopSpawn"
  /\ idx' = 1
  /\ wakeAt' = -1
  /\ UNCHANGED <<cfgV, hist, wg, srvV, cbV, reqs, sigV, wdDeadline, now, exitCause>>

\* variant: a server whose Start failed is not stopped
StopSpawn_skipFailed ==
  /\ ~exited /\ pc = "stopSpawn"
  /\ IF StopLoopDone(idx)
       THEN /\ pc' = "stopWait"
            /\ UNCHANGED <<idx, wg, stopSt>>
       ELSE /\ IF startSt[idx] = "failed"
                 THEN UNCHANGED <<wg, stopSt>>
                 ELSE /\ wg' = wg + 1
                      /\ stopSt' = [stopSt EXCEPT ![idx] = "spawned"]
            /\ idx' = idx + 1
            /\ UNCHANGED pc
  /\ UNCHANGED <<cfgV, hist, wakeAt, reject, startSt, cbV, reqs, sigV, wdDeadline,
                 now, exitCause>>

\* one iteration of the stop loop (wg.Add(1); go func), or its end
StopSpawn ==
  /\ ~exited /\ pc = "stopSpawn"
  /\ IF StopLoopDone(idx)
       THEN /\ pc' = "stopWait"
            /\ UNCHANGED <<idx, wg, stopSt>>
       ELSE /\ wg' = wg + 1
            /\ stopSt' = [stopSt EXCEPT ![idx] = "spawned"]
            /\ idx' = idx + 1
            /\ UNCHANGED pc
  /\ UNCHANGED <<cfgV, hist, wakeAt, reject, startSt, cbV, reqs, sigV, wdDeadline,
                 now, exitCause>>

\* the stop goroutine calls srv.stop(): Shutdown closes the listener
StopCall(s) ==
  /\ ~exited /\ stopSt[s] = "spawned"
  /\ stopSt' = [stopSt EXCEPT ![s] = "called"]
  /\ hist' = [hist EXCEPT !.stop[s] = @ + 1]
  /\ startSt' = [startSt EXCEPT ![s] =
                   IF startSt[s] = "listening" THEN "closed" ELSE startSt[s]]
  /\ UNCHANGED <<cfgV, mainV, reject, cbV, reqs, sigV, wdDeadline, now,
                 exitCause>>

\* srv.Shutdown(context.Background()) returns once no connection is active,
\* with nil or with an error; the deferred wg.Done() runs
StopReturn(s, err) ==
  /\ ~exited /\ stopSt[s] = "called"
  /\ ~InFlight(s)
  /\ stopSt' = [stopSt EXCEPT ![s] = IF err THEN "err" ELSE "ok"]
  /\ wg' = wgDone(wg)
  /\ UNCHANGED <<cfgV, hist, pc, idx, wakeAt, reject, startSt, cbV, reqs, sigV,
                 wdDeadline, now, exitCause>>

\* wg.Wait() after the stop loop
StopWait ==
  /\ ~exited /\ pc = "stopWait"
  /\ StopBarrierOpen
  /\ pc' = "cbSpawn"
  /\ idx' = 1
  /\ hist' = [hist EXCEPT !.cbStageAt = now]
  /\ UNCHANGED <<cfgV, wg, wakeAt, srvV, cbV, reqs, sigV, wdDeadline, now,
                 exitCause>>

\* one iteration of the callback loop (wg.Add(1); context.WithTimeout;
\* go func), or its end
CbSpawn ==
  /\ ~exited /\ pc = "cbSpawn"
  /\ IF CbLoopDone(idx)
       THEN /\ pc' = "cbWait"
            /\ UNCHANGED <<idx, wg, cbSt, cbDeadline>>
       ELSE /\ wg' = wg + 1
            /\ cbDeadline' = [cbDeadline EXCEPT ![idx] = CbDeadlineAt(now)]
            /\ cbSt' = [cbSt EXCEPT ![idx] = "spawned"]
            /\ idx' = idx + 1
            /\ UNCHANGED pc
  /\ UNCHANGED <<cfgV, hist, wakeAt, srvV, cbLate, reqs, sigV, wdDeadline, now,
                 exitCause>>

\* the callback goroutine calls cb(timeoutCtx)
CbInvoke(c) ==
  /\ ~exited /\ cbSt[c] = "spawned"
  /\ cbSt' = [cbSt EXCEPT ![c] = "running"]
  /\ hist' = [hist EXCEPT !.cb[c] = @ + 1, !.cbInvAt[c] = now]
  /\ UNCHANGED <<cfgV, mainV, srvV, cbDeadline, cbLate, reqs, sigV,
                 wdDeadline, now, exitCause>>

\* cb(timeoutCtx) returns, at any time it chooses; then wg.Done()
CbReturn(c) ==
  /\ ~exited /\ cbSt[c] = "running"
  /\ cbSt' = [cbSt EXCEPT ![c] = "returned"]
  /\ cbLate' = [cbLate EXCEPT ![c] = CtxExpired(c)]
  /\ wg' = wgDone(wg)
  /\ UNCHANGED <<cfgV, hist, pc, idx, wakeAt, srvV, cbDeadline, reqs, sigV,
                 wdDeadline, now, exitCause>>

\* cb(timeoutCtx) panics: nothing recovers in the goroutine, wg.Done() is
\* not deferred, and the runtime ends the process with status 2
CbPanic(c) ==
  /\ ~exited /\ cbSt[c] = "running"
  /\ cbSt' = [cbSt EXCEPT ![c] = "panicked"]
  /\ exitCause' = "panic"
  /\ UNCHANGED <<cfgV, hist, mainV, srvV, cbDeadline, cbLate, reqs, sigV,
                 wdDeadline, now>>

\* wg.Wait() after the callback loop, then app.close() starts its sleep
CbWait ==
  /\ ~exited /\ pc = "cbWait"
  /\ CbBarrierOpen
  /\ pc' = "close"
  /\ wakeAt' = now + closeSleep
  /\ UNCHANGED <<cfgV, hist, idx, wg, srvV, cbV, reqs, sigV, wdDeadline, now,
                 exitCause>>

\* variant: the select is in a loop and waits for the next signal again
CloseWake_loop ==
  /\ ~exited /\ pc = "close"
  /\ now >= wakeAt
  /\ pc' = "await"
  /\ wakeAt' = -1
  /\ UNCHANGED <<cfgV, hist, idx, wg, srvV, cbV, reqs, sigV, wdDeadline, now,
                 exitCause>>

\* app.close() returns, shutdown() returns, StartAndServe returns
CloseWake ==
  /\ ~exited /\ pc = "close"
  /\ now >= wakeAt
  /\ pc' = "done"
  /\ wakeAt' = -1
  /\ UNCHANGED <<cfgV, hist, idx, wg, srvV, cbV, reqs, sigV, wdDeadline, now,
                 exitCause>>

\* the caller of StartAndServe returns from main
CallerExit ==
  /\ ~exited /\ pc = "done"
  /\ exitCause' = "normal"
  /\ UNCHANGED <<cfgV, hist, mainV, srvV, cbV, reqs, sigV, wdDeadline, now>>

\* ---- requests -----------------------------------------------------------

\* a connection is accepted by the listening server and a request read
ReqArrive(r, s) ==
  /\ ~exited /\ reqs[r].st = "none"
  /\ \A q \in ReqIds : q < r => reqs[q].st # "none"
  /\ startSt[s] = "listening"
  /\ reqs' = [reqs EXCEPT ![r] = [srv |-> s, st |-> "arrived",
                                  afterReject |-> RejectCalled(s)]]
  /\ UNCHANGED <<cfgV, hist, mainV, srvV, cbV, sigV, wdDeadline, now, exitCause>>

\* serverMux.ServeHTTP reads s.reject and answers or dispatches
ReqServe(r) ==
  /\ ~exited /\ reqs[r].st = "arrived"
  /\ reqs' = [reqs EXCEPT ![r].st = ServeHTTPResult(reject[reqs[r].srv])]
  /\ UNCHANGED <<cfgV, hist, mainV, srvV, cbV, sigV, wdDeadline, now, exitCause>>

\* the registered handler returns
ReqFinish(r) ==
  /\ ~exited /\ reqs[r].st = "handling"
  /\ reqs' = [reqs EXCEPT ![r].st = "served"]
  /\ UNCHANGED <<cfgV, hist, mainV, srvV, cbV, sigV, wdDeadline, now, exitCause>>

\* ---- time ---------------------------------------------------------------

\* the goroutine running StartAndServe can take a step now
MainReady ==
  \/ pc \in {"start", "notify", "reject", "stopSpawn", "cbSpawn"}
  \/ pc = "await" /\ Len(signalChan) > 0
  \/ pc = "drain" /\ DrainDue
  \/ pc = "stopWait" /\ StopBarrierOpen
  \/ pc = "cbWait" /\ CbBarrierOpen
  \/ pc = "close" /\ now >= wakeAt

\* a goroutine launched with "go" has not yet run its first call
GoReady ==
  \/ \E s \in Servers : startSt[s] = "spawned" \/ stopSt[s] = "spawned"
  \/ \E c \in Cbs : cbSt[c] = "spawned"

\* expiry times of the timers that are still pending
PendingTimers ==
  {t \in {wdDeadline, wakeAt} \cup
         {cbDeadline[c] : c \in {d \in Cbs : cbSt[d] \in {"spawned", "running"}}} :
     t > now}

SetMin(S) == CHOOSE m \in S : \A t \in S : m <= t

\* Time passes while the orchestrating goroutine is blocked and no launched
\* goroutine, due timer or pending receive waits to be served.  How long the environment (a
\* handler, a callback, Shutdown) lets the program wait is its choice: up to
\* one second before the next timer expiry, or up to that expiry.  Before
\* the first signal is received the program holds no timer and reads no
\* clock; that time is not counted.
Tick ==
  /\ ~exited
  /\ ~MainReady
  /\ ~GoReady
  /\ wdDeadline # -1 /\ now < wdDeadline
  /\ ~(listener /\ Len(signalChan) > 0)
  /\ PendingTimers # {}
  /\ \E t \in {SetMin(PendingTimers) - 1, SetMin(PendingTimers)} :
       t > now /\ now' = t
  /\ UNCHANGED <<cfgV, hist, mainV, srvV, cbV, reqs, sigV, wdDeadline, exitCause>>

\* ---- specification ------------------------------------------------------

MainStep ==
  \/ SpawnServers
  \/ Notify
  \/ RecvFirst
  \/ RejectStep
  \/ DrainWake
  \/ StopSpawn
  \/ StopWait
  \/ CbSpawn
  \/ CbWait
  \/ CloseWake

\* a launched goroutine runs its first call
GoStart ==
  \/ \E s \in Servers : SrvStart(s) \/ SrvStartFail(s) \/ StopCall(s)
  \/ \E c \in Cbs : CbInvoke(c)

Next ==
  \/ MainStep
  \/ \E s \in Servers : SrvStart(s)
  \/ \E s \in Servers : SrvStartFail(s)
  \/ \E sig \in Signals : SignalDeliver(sig)
  \/ SecondRecv
  \/ WatchdogFire
  \/ \E s \in Servers : StopCall(s)
  \/ \E s \in Servers, err \in BOOLEAN : StopReturn(s, err)
  \/ \E c \in Cbs : CbInvoke(c)
  \/ \E c \in Cbs : CbReturn(c)
  \/ \E c \in Cbs : CbPanic(c)
  \/ CallerExit
  \/ \E r \in ReqIds, s \in Servers : ReqArrive(r, s)
  \/ \E r \in ReqIds : ReqServe(r)
  \/ \E r \in ReqIds : ReqFinish(r)
  \/ Tick

Spec == Init /\ [][Next]_vars

\* the Go scheduler runs every runnable goroutine and every due timer, and
\* the clock advances; arrivals of signals and requests and the durations of
\* handlers, callbacks and Shutdown are not constrained
FairSpec ==
  /\ Spec
  /\ WF_vars(MainStep)
  /\ WF_vars(GoStart)
  /\ WF_vars(SecondRecv)
  /\ WF_vars(WatchdogFire)
  /\ WF_vars(Tick)

TypeOK ==
  /\ nSrv \in 0..MaxServers /\ nCb \in 0..MaxCbs
  /\ pc \in {"start", "notify", "await", "reject", "drain", "stopSpawn",
             "stopWait", "cbSpawn", "cbWait", "close", "done"}
  /\ wg \in 0..(MaxServers + MaxCbs)
  /\ reject \in [Servers -> BOOLEAN]
  /\ startSt \in [Servers -> {"idle", "spawned", "listening", "failed", "closed"}]
  /\ stopSt \in [Servers -> {"idle", "spawned", "called", "ok", "err"}]
  /\ cbSt \in [Cbs -> {"idle", "spawned", "running", "returned", "panicked"}]
  /\ Len(signalChan) <= signalChanCap
  /\ exitCause \in {"none", "normal", "watchdog", "second", "panic"}
  /\ now \in 0..shutdownTimeout

\* ---- properties ---------------------------------------------------------

\* C1: whenever the Drain sleep is in progress (from its first instant on),
\* the reject flag of every registered server is set, for every number of
\* servers.
C1_RejectBeforeDrain ==
  pc = "drain" => \A s \in Servers : reject[s]

C1_Witness ==
  /\ pc = "drain" /\ nSrv >= 2
  /\ now + waitTime = wakeAt
  /\ \A s \in Servers : reject[s]

\* C2: stop() has been invoked on a server only if its reject flag is true.
C2_StopOnlyAfterReject ==
  \A s \in Servers : stopSt[s] \in {"called", "ok", "err"} => reject[s]

C2_Witness ==
  \E s \in Servers : stopSt[s] = "called" /\ reject[s] /\ RejectCalled(s)

\* C3: a callback has been invoked only if the stop() call of every server
\* has returned, with success or with an error.
C3_StopBarrier ==
  \A c \in Cbs : cbSt[c] \in {"running", "returned", "panicked"}
                   => \A s \in Servers : stopSt[s] \in {"ok", "err"}

C3_Witness ==
  /\ \E c \in Cbs : cbSt[c] = "running"
  /\ \E s \in Servers : stopSt[s] = "err"
  /\ \E s \in Servers : stopSt[s] = "ok"

\* C4: app.close() has begun only if every registered callback has
\* returned, also a callback that was still running when its deadline
\* expired; otherwise the stage is left only by the end of the process.
C4_CallbackBarrier ==
  pc \in {"close", "done"} => \A c \in Cbs : cbSt[c] = "returned"

C4_Witness ==
  /\ pc = "close" /\ nCb >= 2
  /\ \E c \in Cbs : cbLate[c]
  /\ \E c \in Cbs : ~cbLate[c]

\* C5: once two trigger signals have been delivered, the process has been
\* ended or the second one is still waiting to be received; none was dropped.
C5_SecondTriggerForcesExit ==
  nTrig >= 2 => (exited \/ (Len(signalChan) > 0 /\ nDropped = 0))

\* C6: the process never runs past shutdownTimeout after the first trigger,
\* the watchdog ends it exactly at that time, and after the first trigger the
\* process always ends.
C6_WatchdogTerminates ==
  /\ [](trigAt # -1 /\ ~exited => now <= trigAt + shutdownTimeout)
  /\ [](exitCause = "watchdog" => now = trigAt + shutdownTimeout)
  /\ (trigAt # -1) ~> exited

C6_Witness ==
  /\ exitCause = "watchdog"
  /\ pc \in {"stopWait", "cbWait"}
  /\ now = trigAt + shutdownTimeout
  /\ \/ \E s \in Servers : stopSt[s] = "called"
     \/ \E c \in Cbs : cbSt[c] = "running"

\* C7: a request that arrived at a server after rejectReq() was called on it
\* (and before its stop()) is answered 503 and never reaches the handler.
C7_RejectedAfterReject ==
  \A r \in ReqIds : reqs[r].afterReject => reqs[r].st \in {"arrived", "r503"}

C7_Witness ==
  \E r \in ReqIds : reqs[r].afterReject /\ reqs[r].st = "r503"

\* C8: a process that has ended without a forced exit (watchdog or second
\* trigger) has completed Release, whatever stop() calls and callbacks failed.
C8_FailuresNeverAbort ==
  (exited /\ exitCause \notin {"watchdog", "second"}) => pc = "done"

\* C9: a panicking callback does not end the process and its completion is
\* signalled to the barrier: the counter equals the number of callbacks
\* still running.
C9_PanicIsolated ==
  (\E c \in Cbs : cbSt[c] = "panicked")
    => /\ exitCause # "panic"
       /\ wg = Cardinality({c \in Cbs : cbSt[c] \in {"spawned", "running"}})

\* C10: no state has an unsynchronized write of a server's reject flag by
\* rejectReq() pending together with an unsynchronized read of it by
\* ServeHTTP.
C10_NoDataRace ==
  \A s \in Servers :
    ~(/\ ~exited /\ ~FlagSynchronized
      /\ pc = "reject" /\ idx = s
      /\ \E r \in ReqIds : reqs[r].srv = s /\ reqs[r].st = "arrived")

\* C11: shutdown() has been entered at most once, rejectReq() and stop()
\* have been invoked at most once on every server and every callback has
\* been invoked at most once, whatever signals were delivered.
C11_NotReentrant ==
  /\ hist.shutdown <= 1
  /\ \A s \in Servers : hist.reject[s] <= 1 /\ hist.stop[s] <= 1
  /\ \A c \in Cbs : hist.cb[c] <= 1

C11_Witness ==
  /\ nTrig >= 2 /\ exitCause = "second"
  /\ hist.shutdown = 1
  /\ \E s \in Servers : hist.reject[s] = 1 /\ hist.stop[s] = 1

\* C12: when the Start of a server has failed, also while the start loop
\* was still running, the loop still ends with the Start goroutine of every
\* server launched, a completed shutdown has set the flag of and stopped
\* every server, the failed one included, and the orchestrator reaches its
\* wait for the first trigger.
C12_StartFailureIsolated ==
  /\ []((\E s \in Servers : startSt[s] = "failed")
          => /\ pc # "start" => \A t \in Servers : startSt[t] # "idle"
             /\ pc = "done" => \A t \in Servers :
                                 /\ reject[t]
                                 /\ stopSt[t] \in {"ok", "err"}
                                 /\ hist.stop[t] = 1)
  /\ <>(pc \notin {"start", "notify"})

C12_Witness ==
  /\ pc = "done"
  /\ \A t \in Servers : startSt[t] # "idle"
  /\ \E s \in Servers : startSt[s] = "failed" /\ stopSt[s] \in {"ok", "err"}
  /\ \E s \in Servers : startSt[s] = "closed" /\ stopSt[s] \in {"ok", "err"}

\* C13: a forced exit (watchdog or second trigger) has a non-zero status
\* different from the normal one, and the normal outcome is only reached
\* with StartAndServe returned after Release completed.
C13_ExitStatusDistinct ==
  /\ exitCause \in {"watchdog", "second"}
       => /\ ExitStatus(exitCause) # 0
          /\ ExitStatus(exitCause) # ExitStatus("normal")
  /\ exitCause = "normal" => pc = "done" /\ ExitStatus(exitCause) = 0
  /\ pc = "done" => wakeAt = -1 /\ \A c \in Cbs : cbSt[c] = "returned"

C13_Witness ==
  /\ exitCause = "second" /\ pc = "drain"
  /\ ExitStatus(exitCause) = 1

\* C14: in every state, calling rejectReq() a second time on a server leaves
\* the flags and the response to a request as the first call left them, and
\* the reject step is never blocked.
C14_RejectIdempotent ==
  /\ \A s \in Servers :
       LET once  == rejectReq(reject, s)
           twice == rejectReq(once, s)
       IN  /\ twice = once
           /\ ServeHTTPResult(twice[s]) = ServeHTTPResult(once[s])
  /\ (pc = "reject" /\ ~exited) => ENABLED RejectStep

C14_Witness ==
  \E s \in Servers :
    /\ hist.reject[s] = 1 /\ reject[s]
    /\ rejectReq(reject, s) = reject
    /\ ServeHTTPResult(rejectReq(reject, s)[s]) = "r503"

\* C15: once StartAndServe has returned, the process is not ended by the
\* watchdog or by a later signal.
C15_NoForcedExitAfterReturn ==
  pc = "done" => exitCause \notin {"watchdog", "second"}

\* C16: when stop() has been called on a server that still runs a request
\* admitted before Reject, stop() can return without the request finishing.
C16_StopCutsRequestOff ==
  \A s \in Servers :
    (/\ ~exited /\ stopSt[s] = "called"
     /\ \E r \in ReqIds : /\ reqs[r].srv = s /\ reqs[r].st = "handling"
                          /\ ~reqs[r].afterReject)
      => ENABLED StopReturn(s, FALSE)

\* C17: the deadline of every callback's context is cbTimeout after the
\* start of the Callback stage, the callback is invoked before it and the
\* context is expired exactly from then on.
C17_CallbackDeadline ==
  \A c \in Cbs : cbSt[c] # "idle" =>
    /\ cbDeadline[c] = hist.cbStageAt + cbTimeout
    /\ hist.cbInvAt[c] # -1 => hist.cbInvAt[c] < cbDeadline[c]
    /\ CtxExpired(c) <=> now >= hist.cbStageAt + cbTimeout

C17_Witness ==
  \E c \in Cbs :
    /\ cbSt[c] = "running" /\ ~CtxExpired(c)
    /\ hist.cbStageAt > hist.rejectDoneAt + waitTime

\* C18: the stop loop is reached, and stop() is invoked on any server, no
\* earlier than waitTime after the reject loop ended, for any number of
\* servers and whether or not a request is in flight.
C18_DrainUnconditional ==
  (\/ pc \in {"stopSpawn", "stopWait", "cbSpawn", "cbWait", "close", "done"}
   \/ \E s \in Servers : stopSt[s] # "idle")
    => /\ hist.rejectDoneAt # -1
       /\ now >= hist.rejectDoneAt + waitTime

C18_Witness ==
  \E s \in Servers :
    /\ stopSt[s] = "called" /\ now = hist.rejectDoneAt + waitTime
    /\ InFlight(s)

\* C19: only an interrupt or termination signal starts shutdown() or is
\* taken as the second trigger that forces exit.
C19_OnlyTriggerSignalsAct ==
  [][((pc = "await" /\ pc' = "reject") \/ (exitCause = "none" /\ exitCause' = "second"))
       => IsTrigger(Head(signalChan))]_vars

\* C20: the WaitGroup counter equals the number of launched stop and
\* callback goroutines that have not signalled completion; it is never
\* negative, it is zero before the first callback is registered, and no stop
\* goroutine is pending once the Callback stage has begun.
C20_WaitGroupCount ==
  LET stopPending == {s \in Servers : stopSt[s] \in {"spawned", "called"}}
      cbPending   == {c \in Cbs : cbSt[c] \in {"spawned", "running", "panicked"}}
  IN  /\ wg >= 0
      /\ wg = Cardinality(stopPending) + Cardinality(cbPending)
      /\ pc \in {"cbSpawn", "cbWait", "close", "done"} => stopPending = {}
      /\ (pc = "cbSpawn" /\ idx = 1) => wg = 0

C20_Witness ==
  /\ pc = "cbWait" /\ wg = 1
  /\ \E c \in Cbs : cbSt[c] = "returned"
  /\ \E c \in Cbs : cbSt[c] = "running"
  /\ \E s \in Servers : stopSt[s] = "ok"

====
